---- MODULE Spec2Model ----
(***************************************************************************)
(* CodeClash (Python-Duel): the Redis matchmaking queue and the battle     *)
(* room of SCALE_TO_5000.md, and the submit_code / sync_code handlers of   *)
(* INTERVIEW_DEFENSE_GUIDE.md, as state machines.                          *)
(*                                                                         *)
(* Redis executes one command, or one MULTI/EXEC pipeline, at a time; a    *)
(* method of RedisMatchmakingQueue that issues several commands is         *)
(* therefore modelled as several steps of the caller that runs it, and     *)
(* the callers (servers sharing the one Redis, handlers of one server)     *)
(* interleave between those steps.                                         *)
(***************************************************************************)
EXTENDS Integers, Sequences, FiniteSets, TLC

(* ------------------------------ bounds -------------------------------- *)

\* identities that may join the queue
NumUsers == 3

\* concurrent callers of the queue API
NumProcs == 2

\* battle rooms created in one behaviour
MaxRooms == 2

\* submit_code events in one behaviour
MaxSubmits == 3
MaxJobs == 6

\* test cases the challenge of a room declares: len(challenge.test_cases)
NumTests == 2

Users == 1..NumUsers

Procs == 1..NumProcs

RoomIds == 1..MaxRooms

\* the rating each identity registered with (Scenario A: 1000, 1100, 1500);
\* 1000 is the default
elo_rating(u) == IF u = 2 THEN 1100 ELSE IF u = 3 THEN 1500 ELSE 1000

\* challenge identifiers a caller may pass to attempt_matchmaking
Challenges == {"two_sum", "palindrome"}

\* code texts a participant may send
Codes == {"v1", "v2"}

\* Python's None where an identity or a room id is expected (ids start at 1)
None == 0

(* --------------------------- program constants ------------------------ *)

\* find_best_match(player_id, elo_tolerance=200)
elo_tolerance == 200

\* closest_diff = float('inf'): larger than every rating difference
Infinity == 1000000

VARIABLES
    queue,        \* queue:global, the sorted set: its members in score order
    player,       \* player:{user_id} keys: the stored Player, or None
    room,         \* room:{room_id} keys: the stored battle_data, or None
    player_room,  \* player_room:{user_id} keys: a room id, or None
    next_room,    \* the next fresh room id (uuid4)
    submits,      \* submit_code events received so far
    proc,         \* each caller: its position and the locals of its call
    job,          \* one call of the sandbox: its code, position and result
    pool,         \* the thread pool of the server: work queue and workers
    responses,    \* code_submission and error events emitted for submit_code
    last_sync_timestamps, \* last_sync_timestamps[room_id:user_id]['timestamp']
    syncs,        \* the sync_code events the server has received, in order
    opponentCode, \* each client: the code its opponent_code_update handler set
    socket_to_user,   \* socket_to_user: the identity registered on each sid
    connected_users,  \* connected_users: the socket_id kept for each identity
    battle_sessions,  \* the battle_sessions table: one row per room id
    recovered,    \* the session_recovered event emitted to each sid, if any
    app,          \* the state of the App component of one client
    timeoutId,    \* the timer of debouncedSyncCode and the argument it holds
    sent,         \* the events this client has emitted that are in flight
    battle_complete,      \* the battle_complete events emitted to each room
    challenge_requested,  \* the challenge_id of each identity's join_queue
    socketRef,    \* socketRef.current of the client: its socket
    wire,         \* what the client's sockets sent, as the server gets it
    effectDeps    \* the [userId] the socket effect last ran with

\* the state of sync_code, of the connection handlers and of one client
sync_vars == <<last_sync_timestamps, syncs, opponentCode>>
session_vars == <<socket_to_user, connected_users, battle_sessions, recovered>>
client_vars == <<app, timeoutId, sent>>
event_vars == <<battle_complete, challenge_requested, socketRef, wire,
                effectDeps>>

vars == <<queue, player, room, player_room, next_room, submits, proc,
          job, pool, responses, sync_vars, session_vars, client_vars,
          event_vars>>

(* ------------------------- Redis sorted set --------------------------- *)

\* ZREM key member
ZRem(zs, m) == SelectSeq(zs, LAMBDA e : e # m)

\* a ZADD that would keep the old entry of a member it adds again
ZAddKeepOld(zs, m) == Append(zs, m)

\* ZADD key {member: now}: the score is the current time, later than every
\* stored score, so the member goes last; a member already present keeps one
\* entry, with the new score
ZAdd(zs, m) == Append(ZRem(zs, m), m)

\* ZRANGE key 0 -1
ZRange(zs) == zs

\* ZCARD
get_queue_size == Len(queue)

ZMembers(zs) == {zs[i] : i \in 1..Len(zs)}

Abs(x) == IF x < 0 THEN -x ELSE x

(* ----------------------------- records -------------------------------- *)

\* Player(user_id, username, elo_rating, queue_time, socket_id)
Player(u, e) == [user_id |-> u, elo_rating |-> e]

\* redis.get of a player:{user_id} key that does not exist
NoPlayer == Player(None, 0)

\* battle_data of attempt_matchmaking
BattleData(rid, d1, d2, ch) ==
    [room_id |-> rid, player1 |-> d1, player2 |-> d2, challenge_id |-> ch,
     status |-> "in_progress", player1_code |-> "", player2_code |-> "",
     player1_tests |-> 0, player2_tests |-> 0, total_tests |-> 0,
     winner_id |-> None]

\* redis.get of a room:{room_id} key that does not exist
NoRoom == [BattleData(None, NoPlayer, NoPlayer, "") EXCEPT !.status = ""]

\* the locals of a caller that is between calls
Idle ==
    [pc |-> "idle", p1 |-> None, elo |-> 0,
     snap |-> <<>>, best |-> None, diff |-> Infinity, d1 |-> NoPlayer,
     d2 |-> NoPlayer, uid |-> None, rid |-> None,
     passed |-> 0, total |-> 0, bd |-> NoRoom, seq |-> 0]

(* --------------------- submitted code and results --------------------- *)

\* ast nodes, as check_forbidden_imports_ast reads them: the names of an
\* Import, the module of an ImportFrom, the func of a Call
NoFunc == [type |-> "", id |-> "", attr |-> ""]
AstName(id) == [type |-> "Name", id |-> id, attr |-> ""]
AstAttribute(attr) == [type |-> "Attribute", id |-> "", attr |-> attr]
AstCallFunc == [type |-> "Call", id |-> "", attr |-> ""]
alias(name, asname) == [name |-> name, asname |-> asname]
Import(names) ==
    [type |-> "Import", names |-> names, module |-> <<>>, func |-> NoFunc]
ImportFrom(module) ==
    [type |-> "ImportFrom", names |-> <<>>, module |-> module, func |-> NoFunc]
Call(func) ==
    [type |-> "Call", names |-> <<>>, module |-> <<>>, func |-> func]
Expr(type) ==
    [type |-> type, names |-> <<>>, module |-> <<>>, func |-> NoFunc]

\* the configured maximum code length, 50 KiB
max_code_length == 51200

\* a submitted code: its language, whether it parses (compiles), the nodes
\* ast.walk yields, the forbidden strings it contains (java), its length,
\* and the route by which it reaches a denied module or builtin when run
Code(language, text, parses, walk, strings, route, length) ==
    [language |-> language, text |-> text, parses |-> parses, walk |-> walk,
     strings |-> strings, route |-> route, length |-> length]

Py(text, walk, route) == Code("python", text, TRUE, walk, {}, route, 64)

PythonCodes ==
    { Py("def solve(a): return sorted(a)",
         <<Call(AstName("sorted")), Expr("Name")>>, "none"),
      Py("import math", <<Import(<<alias(<<"math">>, "")>>)>>, "none"),
      Py("from . import helpers", <<ImportFrom(<<>>)>>, "none"),
      Py("import os", <<Import(<<alias(<<"os">>, "")>>)>>, "direct"),
      Py("import math, os.path",
         <<Import(<<alias(<<"math">>, ""), alias(<<"os", "path">>, "")>>)>>,
         "direct"),
      Py("from subprocess import run", <<ImportFrom(<<"subprocess">>)>>,
         "direct"),
      Py("import os as o", <<Import(<<alias(<<"os">>, "o")>>)>>, "aliased"),
      Py("__import__('os')",
         <<Call(AstName("__import__")), Expr("Name"), Expr("Constant")>>,
         "dynamic"),
      Py("eval('1+1')",
         <<Call(AstName("eval")), Expr("Name"), Expr("Constant")>>,
         "dynamic"),
      Py("__builtins__.__import__('os')",
         <<Call(AstAttribute("__import__")), Expr("Attribute"),
           Expr("Constant"), Expr("Name")>>, "reflective"),
      Py("getattr(__builtins__, '__import__')('os')",
         <<Call(AstCallFunc), Call(AstName("getattr")), Expr("Constant"),
           Expr("Name"), Expr("Name"), Expr("Constant")>>, "reflective"),
      Code("python", "def solve(:", FALSE, <<>>, {}, "none", 11),
      Code("python", "import os; def solve(:", FALSE, <<>>, {}, "direct", 22),
      Code("python", "def solve(a): return a  # 50 KiB exactly", TRUE,
           <<Expr("Name")>>, {}, "none", max_code_length),
      Code("python", "def solve(a): return a  # 50 KiB and a byte", TRUE,
           <<Expr("Name")>>, {}, "none", max_code_length + 1) }

JavaCodes ==
    { Code("java", "static Object solve(Object o) { return o; }", TRUE,
           <<>>, {}, "none", 64),
      Code("java", "static Object solve(Object o) { return o }", FALSE,
           <<>>, {}, "none", 64),
      Code("java", "java.lang.Runtime.getRuntime().exec(..)", TRUE,
           <<>>, {"java.lang.Runtime"}, "direct", 64) }

SubmittedCodes == PythonCodes \cup JavaCodes

ExecutionResult(success, passed_tests, total_tests, error) ==
    [success |-> success, passed_tests |-> passed_tests,
     total_tests |-> total_tests, error |-> error]

NoResult == ExecutionResult(FALSE, 0, 0, "")

\* no call of the sandbox is in progress
NoJob ==
    [pc |-> "none", code |-> Code("", "", FALSE, <<>>, {}, "none", 0),
     test_cases |-> 0, spawned |-> 0, result |-> NoResult]

\* executor = ThreadPoolExecutor(max_workers=4)
max_workers == 4

\* the pool before any execute_code is handed to it: no work item queued,
\* no worker thread started
NoPool ==
    [work_queue |-> <<>>, threads |-> 0, running |-> {}, submitted |-> 0,
     finished |-> {}]

(* ------------- sync_code, connections and one client: values --------- *)

\* the sids of the sockets that connect
NumSids == 3
Sids == 1..NumSids

\* sync_code events received before a bound stops the run
MaxSyncs == 3

\* events of one client in flight to the server at a time
MaxSent == 2

\* packets of the client's sockets the server has not handled yet
MaxWire == 3

\* data.get('timestamp', 0): 0 when the client sends none, or its Date.now()
Timestamps == {0, 1000, 1100, 1300}

\* a sync_code event as the handler reads it
SyncData(user_id, room_id, code, timestamp) ==
    [user_id |-> user_id, room_id |-> room_id, code |-> code,
     timestamp |-> timestamp]

\* a row of battle_sessions
BattleSession(room_id, player1_id, player2_id, status) ==
    [room_id |-> room_id, player1_id |-> player1_id, player2_id |-> player2_id,
     player1_code |-> "", player2_code |-> "", player1_tests |-> 0,
     player2_tests |-> 0, total_tests |-> 0, status |-> status]

\* db.query(BattleSession)...first() of a query that matches no row
NoSession == BattleSession(None, None, None, "")

\* the payload of session_recovered
SessionRecovered(active_battle) ==
    [room_id |-> active_battle.room_id,
     player1_code |-> active_battle.player1_code,
     player2_code |-> active_battle.player2_code,
     player1_tests |-> active_battle.player1_tests,
     player2_tests |-> active_battle.player2_tests,
     total_tests |-> active_battle.total_tests]

\* no session_recovered was emitted
NoRecovery == SessionRecovered(NoSession)

\* setBattleResult({winner, winner_id, ...}); useState(null) is NoBattleResult
BattleResult(winner_id) == [winner |-> winner_id, winner_id |-> winner_id]
NoBattleResult == BattleResult(None)

\* the useState values of App at its first render
AppMount ==
    [userId |-> None, isLoggedIn |-> FALSE, isRegistered |-> FALSE,
     inQueue |-> FALSE, inBattle |-> FALSE, roomId |-> None,
     userCode |-> "", battleResult |-> NoBattleResult,
     userTestsPassed |-> 0, opponentTestsPassed |-> 0]

\* let timeoutId of debounce: no timer is set
NoTimeout == [set |-> FALSE, args |-> ""]

\* socketRef.current.emit(event, {user_id, room_id, code})
Emit(event, user_id, room_id, code) ==
    [event |-> event, user_id |-> user_id, room_id |-> room_id, code |-> code]

InitSyncVars ==
    /\ last_sync_timestamps = [r \in RoomIds |-> [u \in Users |-> 0]]
    /\ syncs = <<>>
    /\ opponentCode = [u \in Users |-> ""]

InitSessionVars ==
    /\ socket_to_user = [sid \in Sids |-> None]
    /\ connected_users = [u \in Users |-> None]
    /\ battle_sessions = [r \in RoomIds |-> NoSession]
    /\ recovered = [sid \in Sids |-> NoRecovery]

InitClientVars ==
    /\ app = AppMount
    /\ timeoutId = NoTimeout
    /\ sent = <<>>

\* the battle_complete events of a room: how many were emitted, and the
\* winner_id of the last one
NoBattleComplete == [count |-> 0, winner_id |-> None]

\* io(socketURL): a socket of the client, with the sid the server knows it by
Socket(sid) == [id |-> sid, connected |-> TRUE]

\* socketRef.current before the socket is made
NoSocket == [id |-> None, connected |-> FALSE]

\* a packet of the socket with this sid: an event with its user_id, or the
\* close of the connection
Packet(event, sid, user_id) == [event |-> event, sid |-> sid, user_id |-> user_id]

\* the dependencies of an effect that has not run: the component is not
\* mounted yet
NotRun == [ran |-> FALSE, userId |-> None]

InitEventVars ==
    /\ battle_complete = [r \in RoomIds |-> NoBattleComplete]
    /\ challenge_requested = [u \in Users |-> ""]
    /\ socketRef = NoSocket
    /\ wire = <<>>
    /\ effectDeps = NotRun

(* ------------------------------- Init --------------------------------- *)

Init ==
    /\ queue = <<>>
    /\ player = [u \in Users |-> NoPlayer]
    /\ room = [r \in RoomIds |-> NoRoom]
    /\ player_room = [u \in Users |-> None]
    /\ next_room = 1
    /\ submits = 0
    /\ proc = [p \in Procs |-> Idle]
    /\ job = NoJob
    /\ pool = NoPool
    /\ responses = 0
    /\ InitSyncVars
    /\ InitSessionVars
    /\ InitClientVars
    /\ InitEventVars

Return(p) == proc' = [proc EXCEPT ![p] = Idle]

Goto(p, label) == proc' = [proc EXCEPT ![p].pc = label]

(* ---------------------------- add_to_queue ---------------------------- *)

\* one pipeline: SET player:{user_id}, ZADD queue:global {user_id: now}
add_to_queue(p, u) ==
    /\ proc[p].pc = "idle"
    /\ player' = [player EXCEPT ![u] = Player(u, elo_rating(u))]
    /\ queue' = ZAdd(queue, u)
    /\ Return(p)
    /\ UNCHANGED <<room, player_room, next_room, submits, job, pool, responses,
                   sync_vars, session_vars, client_vars, event_vars>>

(* -------------------------- remove_from_queue ------------------------- *)

\* self.redis.zrem(QUEUE_KEY, user_id)
remove_zrem(p, u) ==
    /\ proc[p].pc = "idle"
    /\ queue' = ZRem(queue, u)
    /\ proc' = [proc EXCEPT ![p] = [Idle EXCEPT !.pc = "rq_del", !.uid = u]]
    /\ UNCHANGED <<player, room, player_room, next_room, submits, job, pool, responses,
                   sync_vars, session_vars, client_vars, event_vars>>

\* self.redis.delete(player:{user_id}); return True
remove_delete(p) ==
    /\ proc[p].pc = "rq_del"
    /\ player' = [player EXCEPT ![proc[p].uid] = NoPlayer]
    /\ Return(p)
    /\ UNCHANGED <<queue, room, player_room, next_room, submits, job, pool, responses,
                   sync_vars, session_vars, client_vars, event_vars>>

(* ------------------- find_best_match / attempt_matchmaking ----------- *)

\* if self.get_queue_size() < 2: return None
attempt_size(p) ==
    /\ proc[p].pc = "idle"
    /\ IF get_queue_size < 2
          THEN Return(p)
          ELSE proc' = [proc EXCEPT ![p] = [Idle EXCEPT !.pc = "am_head"]]
    /\ UNCHANGED <<queue, player, room, player_room, next_room, submits, job, pool, responses,
                   sync_vars, session_vars, client_vars, event_vars>>

\* queue_user_ids = zrange(QUEUE_KEY, 0, 0); player1_id = queue_user_ids[0]
attempt_head(p) ==
    /\ proc[p].pc = "am_head"
    /\ IF queue = <<>>
          THEN Return(p)
          ELSE proc' = [proc EXCEPT ![p].pc = "fbm_get", ![p].p1 = queue[1]]
    /\ UNCHANGED <<queue, player, room, player_room, next_room, submits, job, pool, responses,
                   sync_vars, session_vars, client_vars, event_vars>>

\* find_best_match: player_data = redis.get(player:{player_id})
find_get_player(p) ==
    /\ proc[p].pc = "fbm_get"
    /\ IF player[proc[p].p1] = NoPlayer
          THEN Return(p)
          ELSE proc' = [proc EXCEPT ![p].pc = "fbm_range",
                                    ![p].elo = player[proc[p].p1].elo_rating]
    /\ UNCHANGED <<queue, player, room, player_room, next_room, submits, job, pool, responses,
                   sync_vars, session_vars, client_vars, event_vars>>

\* find_best_match: queue_user_ids = zrange(QUEUE_KEY, 0, -1)
find_range(p) ==
    /\ proc[p].pc = "fbm_range"
    /\ proc' = [proc EXCEPT ![p].pc = "fbm_loop", ![p].snap = ZRange(queue),
                            ![p].best = None, ![p].diff = Infinity]
    /\ UNCHANGED <<queue, player, room, player_room, next_room, submits, job, pool, responses,
                   sync_vars, session_vars, client_vars, event_vars>>

\* a candidate as close as the best so far replaces it
find_candidate_last_tie(p) ==
    /\ proc[p].pc = "fbm_loop"
    /\ proc[p].snap # <<>>
    /\ LET candidate_id == Head(proc[p].snap)
           candidate == player[candidate_id]
           elo_diff == Abs(proc[p].elo - candidate.elo_rating)
           rest == [proc EXCEPT ![p].snap = Tail(proc[p].snap)]
       IN  IF candidate_id = proc[p].p1 \/ candidate = NoPlayer
             THEN proc' = rest
             ELSE IF elo_diff <= proc[p].diff /\ elo_diff <= elo_tolerance
                    THEN proc' = [rest EXCEPT ![p].diff = elo_diff,
                                              ![p].best = candidate_id]
                    ELSE proc' = rest
    /\ UNCHANGED <<queue, player, room, player_room, next_room, submits, job, pool, responses,
                   sync_vars, session_vars, client_vars, event_vars>>

\* the closest candidate is taken whatever the difference
find_candidate_any(p) ==
    /\ proc[p].pc = "fbm_loop"
    /\ proc[p].snap # <<>>
    /\ LET candidate_id == Head(proc[p].snap)
           candidate == player[candidate_id]
           elo_diff == Abs(proc[p].elo - candidate.elo_rating)
           rest == [proc EXCEPT ![p].snap = Tail(proc[p].snap)]
       IN  IF candidate_id = proc[p].p1 \/ candidate = NoPlayer
             THEN proc' = rest
             ELSE IF elo_diff < proc[p].diff
                    THEN proc' = [rest EXCEPT ![p].diff = elo_diff,
                                              ![p].best = candidate_id]
                    ELSE proc' = rest
    /\ UNCHANGED <<queue, player, room, player_room, next_room, submits, job, pool, responses,
                   sync_vars, session_vars, client_vars, event_vars>>

\* a head that finds no opponent is taken out of the queue
find_return_drops_head(p) ==
    /\ proc[p].pc = "fbm_loop"
    /\ proc[p].snap = <<>>
    /\ IF proc[p].best = None
          THEN Return(p) /\ queue' = ZRem(queue, proc[p].p1)
          ELSE Goto(p, "am_get1") /\ UNCHANGED queue
    /\ UNCHANGED <<player, room, player_room, next_room, submits, job, pool, responses,
                   sync_vars, session_vars, client_vars, event_vars>>

\* find_best_match: one iteration of the loop over the candidates
find_candidate(p) ==
    /\ proc[p].pc = "fbm_loop"
    /\ proc[p].snap # <<>>
    /\ LET candidate_id == Head(proc[p].snap)
           candidate == player[candidate_id]
           elo_diff == Abs(proc[p].elo - candidate.elo_rating)
           rest == [proc EXCEPT ![p].snap = Tail(proc[p].snap)]
       IN  IF candidate_id = proc[p].p1 \/ candidate = NoPlayer
             THEN proc' = rest
             ELSE IF elo_diff < proc[p].diff /\ elo_diff <= elo_tolerance
                    THEN proc' = [rest EXCEPT ![p].diff = elo_diff,
                                              ![p].best = candidate_id]
                    ELSE proc' = rest
    /\ UNCHANGED <<queue, player, room, player_room, next_room, submits, job, pool, responses,
                   sync_vars, session_vars, client_vars, event_vars>>

\* find_best_match returns best_match; if not player2_id: return None
find_return(p) ==
    /\ proc[p].pc = "fbm_loop"
    /\ proc[p].snap = <<>>
    /\ IF proc[p].best = None
          THEN Return(p)
          ELSE Goto(p, "am_get1")
    /\ UNCHANGED <<queue, player, room, player_room, next_room, submits, job, pool, responses,
                   sync_vars, session_vars, client_vars, event_vars>>

\* player1_data = Player.from_json(redis.get(player:{player1_id}));
\* from_json(None) raises, and the except clause returns None
attempt_get1(p) ==
    /\ proc[p].pc = "am_get1"
    /\ IF player[proc[p].p1] = NoPlayer
          THEN Return(p)
          ELSE proc' = [proc EXCEPT ![p].pc = "am_get2", ![p].d1 = player[proc[p].p1]]
    /\ UNCHANGED <<queue, player, room, player_room, next_room, submits, job, pool, responses,
                   sync_vars, session_vars, client_vars, event_vars>>

\* player2_data = Player.from_json(redis.get(player:{player2_id}))
attempt_get2(p) ==
    /\ proc[p].pc = "am_get2"
    /\ IF player[proc[p].best] = NoPlayer
          THEN Return(p)
          ELSE proc' = [proc EXCEPT ![p].pc = "am_exec", ![p].d2 = player[proc[p].best]]
    /\ UNCHANGED <<queue, player, room, player_room, next_room, submits, job, pool, responses,
                   sync_vars, session_vars, client_vars, event_vars>>

\* one pipeline: ZREM both, SET room:{room_id}, SET player_room:{...} twice
attempt_execute(p, challenge_id) ==
    /\ proc[p].pc = "am_exec"
    /\ next_room <= MaxRooms
    /\ queue' = ZRem(ZRem(queue, proc[p].p1), proc[p].best)
    /\ room' = [room EXCEPT ![next_room] =
                    BattleData(next_room, proc[p].d1, proc[p].d2, challenge_id)]
    /\ player_room' = [player_room EXCEPT ![proc[p].p1] = next_room,
                                          ![proc[p].best] = next_room]
    /\ next_room' = next_room + 1
    /\ Return(p)
    /\ UNCHANGED <<player, submits, job, pool, responses,
                   sync_vars, session_vars, client_vars, event_vars>>

(* --------------------------- battle room ------------------------------ *)

\* the state attempt_matchmaking leaves after it has matched identities 1 and 2
InitBattle ==
    /\ queue = <<>>
    /\ player = [u \in Users |-> IF u \in {1, 2} THEN Player(u, elo_rating(u))
                                                  ELSE NoPlayer]
    /\ room = [r \in RoomIds |->
                 IF r = 1 THEN BattleData(1, Player(1, elo_rating(1)),
                                          Player(2, elo_rating(2)), "two_sum")
                          ELSE NoRoom]
    /\ player_room = [u \in Users |-> IF u \in {1, 2} THEN 1 ELSE None]
    /\ next_room = 2
    /\ submits = 0
    /\ proc = [p \in Procs |-> Idle]
    /\ job = NoJob
    /\ pool = NoPool
    /\ responses = 0
    /\ InitSyncVars
    /\ InitSessionVars
    /\ InitClientVars
    /\ InitEventVars

\* get_battle_room(room_id): json.loads(data) if data else None
get_battle_room(rid) == IF rid \in RoomIds THEN room[rid] ELSE NoRoom

\* update_player_code(room_id, user_id, code): the participant's stored code
\* is overwritten while the room is not completed
update_player_code(rid, u, code) ==
    LET bd == room[rid]
    IN  IF bd = NoRoom \/ bd.status = "completed" THEN room
        ELSE IF u = bd.player1.user_id
               THEN [room EXCEPT ![rid].player1_code = code]
        ELSE IF u = bd.player2.user_id
               THEN [room EXCEPT ![rid].player2_code = code]
        ELSE room

\* submit_code up to the await of run_in_executor: the room is looked up (an
\* unknown room answers 'Battle room not found'), the code is stored and
\* execute_code is handed to the pool
submit_code(p, u, rid, code) ==
    /\ proc[p].pc = "idle"
    /\ submits < MaxSubmits
    /\ submits' = submits + 1
    /\ IF get_battle_room(rid) = NoRoom
          THEN Return(p) /\ responses' = responses + 1 /\ UNCHANGED room
          ELSE /\ room' = update_player_code(rid, u, code)
               /\ proc' = [proc EXCEPT ![p] =
                             [Idle EXCEPT !.pc = "exec", !.uid = u, !.rid = rid,
                                          !.seq = submits + 1]]
               /\ UNCHANGED responses
    /\ UNCHANGED <<queue, player, player_room, next_room, job, pool,
                   sync_vars, session_vars, client_vars, event_vars>>

\* execute_code returns: passed_tests of total_tests = len(test_cases)
execute_code(p, passed) ==
    /\ proc[p].pc = "exec"
    /\ proc' = [proc EXCEPT ![p].pc = "utr_get", ![p].passed = passed,
                            ![p].total = NumTests]
    /\ UNCHANGED <<queue, player, room, player_room, next_room, submits, job, pool, responses,
                   sync_vars, session_vars, client_vars, event_vars>>

\* update_test_results: battle_data = self.get_battle_room(room_id)
update_get(p) ==
    /\ proc[p].pc = "utr_get"
    /\ proc' = [proc EXCEPT ![p].pc =
                    IF get_battle_room(proc[p].rid) = NoRoom THEN "emit" ELSE "utr_set",
                            ![p].bd = get_battle_room(proc[p].rid)]
    /\ UNCHANGED <<queue, player, room, player_room, next_room, submits, job, pool, responses,
                   sync_vars, session_vars, client_vars, event_vars>>

\* update_test_results: the changes it makes to the battle_data it has read
UpdatedBattle(bd, player_id, tests_passed, total_tests) ==
    LET counted ==
            IF player_id = bd.player1.user_id
              THEN [bd EXCEPT !.total_tests = total_tests,
                              !.player1_tests = tests_passed]
              ELSE [bd EXCEPT !.total_tests = total_tests,
                              !.player2_tests = tests_passed]
    IN  IF tests_passed = total_tests
          THEN [counted EXCEPT !.winner_id = player_id, !.status = "completed"]
          ELSE counted

\* update_test_results: redis.set(room:{room_id}, json.dumps(battle_data))
update_set(p) ==
    /\ proc[p].pc = "utr_set"
    /\ room' = [room EXCEPT ![proc[p].rid] =
                    UpdatedBattle(proc[p].bd, proc[p].uid, proc[p].passed,
                                  proc[p].total)]
    /\ proc' = [proc EXCEPT ![p].pc = "emit", ![p].bd = NoRoom]
    /\ UNCHANGED <<queue, player, player_room, next_room, submits, job, pool, responses,
                   sync_vars, session_vars, client_vars, event_vars>>

\* the handler returns without emitting anything
submit_emit_silent(p) ==
    /\ proc[p].pc = "emit"
    /\ Return(p)
    /\ UNCHANGED <<queue, player, room, player_room, next_room, submits, job, pool,
                   responses,
                   sync_vars, session_vars, client_vars, event_vars>>

\* the battle_complete events after submit_code has handled a submission of
\* user_id: when passed_tests == total_tests the room is read again and one
\* more event goes to it, with winner_id = winner.user_id where winner is
\* player1 if user_id is player1's and else player2
EmitBattleComplete(rid, user_id, passed_tests, total_tests) ==
    IF passed_tests = total_tests /\ get_battle_room(rid) # NoRoom
      THEN [battle_complete EXCEPT ![rid] =
              [count |-> @.count + 1,
               winner_id |-> IF user_id = room[rid].player1.user_id
                               THEN room[rid].player1.user_id
                               ELSE room[rid].player2.user_id]]
      ELSE battle_complete

\* submit_code after update_test_results: code_submission to the room, and
\* battle_complete when passed_tests == total_tests
submit_emit(p) ==
    /\ proc[p].pc = "emit"
    /\ Return(p)
    /\ responses' = responses + 1
    /\ battle_complete' = EmitBattleComplete(proc[p].rid, proc[p].uid,
                                              proc[p].passed, proc[p].total)
    /\ UNCHANGED <<queue, player, room, player_room, next_room, submits, job, pool,
                   sync_vars, session_vars, client_vars, challenge_requested,
                   socketRef, wire, effectDeps>>

\* sync_code for an event that carries no timestamp (timestamp = 0, so the
\* 200 ms deduplication does not apply): the room is looked up, the code
\* stored, the opponent told
sync_code(p, u, rid, code) ==
    /\ proc[p].pc = "idle"
    /\ get_battle_room(rid) # NoRoom
    /\ room' = update_player_code(rid, u, code)
    /\ UNCHANGED <<queue, player, player_room, next_room, submits, proc, job, pool, responses,
                   sync_vars, session_vars, client_vars, event_vars>>

NextBattle ==
    \/ \E p \in Procs, u \in Users, r \in RoomIds, c \in Codes : submit_code(p, u, r, c)
    \/ \E p \in Procs, n \in 0..NumTests : execute_code(p, n)
    \/ \E p \in Procs : update_get(p)
    \/ \E p \in Procs : update_set(p)
    \/ \E p \in Procs : submit_emit(p)
    \/ \E p \in Procs, u \in Users, r \in RoomIds, c \in Codes : sync_code(p, u, r, c)

SpecBattle == InitBattle /\ [][NextBattle]_vars

(* ------------------------------- Next --------------------------------- *)

Next ==
    \/ \E p \in Procs, u \in Users : add_to_queue(p, u)
    \/ \E p \in Procs, u \in Users : remove_zrem(p, u)
    \/ \E p \in Procs : remove_delete(p)
    \/ \E p \in Procs : attempt_size(p)
    \/ \E p \in Procs : attempt_head(p)
    \/ \E p \in Procs : find_get_player(p)
    \/ \E p \in Procs : find_range(p)
    \/ \E p \in Procs : find_candidate(p)
    \/ \E p \in Procs : find_return(p)
    \/ \E p \in Procs : attempt_get1(p)
    \/ \E p \in Procs : attempt_get2(p)
    \/ \E p \in Procs, ch \in Challenges : attempt_execute(p, ch)

Spec == Init /\ [][Next]_vars

(* ------------------------ validator and sandbox ----------------------- *)

FORBIDDEN_IMPORTS ==
    {"os", "sys", "subprocess", "shutil", "socket", "requests", "urllib",
     "http", "ftplib", "smtplib", "ssl", "threading", "multiprocessing",
     "asyncio", "__import__", "importlib"}

\* the verdict on one node of the tree: the error message, "" for none
NodeError(node) ==
    IF node.type = "Import"
    THEN IF \E i \in 1..Len(node.names) :
                Head(node.names[i].name) \in FORBIDDEN_IMPORTS
         THEN "Forbidden import detected" ELSE ""
    ELSE IF node.type = "ImportFrom"
    THEN LET module_name ==
                 IF node.module # <<>> THEN Head(node.module) ELSE ""
         IN  IF module_name \in FORBIDDEN_IMPORTS
             THEN "Forbidden import detected" ELSE ""
    ELSE IF node.type = "Call"
    THEN IF node.func.type = "Name"
         THEN IF node.func.id \in
                     {"__import__", "eval", "exec", "compile", "open"}
              THEN "Dangerous function call blocked" ELSE ""
         ELSE IF node.func.type = "Attribute"
         THEN IF node.func.attr \in {"__import__", "__loader__"}
              THEN "Dangerous attribute access blocked" ELSE ""
         ELSE ""
    ELSE ""

\* a parse error passes the code through
check_passes_syntax_error(code) ==
    IF ~code.parses THEN [is_safe |-> TRUE, error |-> ""]
    ELSE LET bad == {i \in 1..Len(code.walk) : NodeError(code.walk[i]) # ""}
         IN  IF bad # {}
             THEN [is_safe |-> FALSE,
                   error |-> NodeError(code.walk[
                                 CHOOSE i \in bad : \A j \in bad : i <= j])]
             ELSE [is_safe |-> TRUE, error |-> ""]

\* (is_safe, error_msg): the first node of the walk that is refused decides
check_forbidden_imports_ast(code) ==
    IF ~code.parses THEN [is_safe |-> FALSE, error |-> "Syntax error in code"]
    ELSE LET bad == {i \in 1..Len(code.walk) : NodeError(code.walk[i]) # ""}
         IN  IF bad # {}
             THEN [is_safe |-> FALSE,
                   error |-> NodeError(code.walk[
                                 CHOOSE i \in bad : \A j \in bad : i <= j])]
             ELSE [is_safe |-> TRUE, error |-> ""]

FORBIDDEN ==
    {"java.lang.Runtime", "java.lang.ProcessBuilder", "java.io.File",
     "java.nio.file", "java.net.Socket", "java.sql"}

\* "forbidden in code" for some forbidden string
check_forbidden_imports_java(code) ==
    IF code.strings \cap FORBIDDEN # {}
    THEN [is_safe |-> FALSE, error |-> "Forbidden import"]
    ELSE [is_safe |-> TRUE, error |-> ""]

\* what a sandbox process leaves on standard output: a JSON object with the
\* keys passed and total, or text that json.loads refuses
Counts == 0..(NumTests + 1)

Stdout ==
    [kind : {"json"}, passed : Counts, total : Counts]
        \cup [kind : {"malformed", "truncated", "no_keys"},
              passed : {0}, total : {0}]

JobReturn(result) == job' = [job EXCEPT !.pc = "done", !.result = result]

\* the rejected code is executed all the same
execute_code_unchecked ==
    /\ job.pc = "start"
    /\ job.code.language = "python"
    /\ job' = [job EXCEPT !.pc = "length"]
    /\ UNCHANGED <<queue, player, room, player_room, next_room, submits, proc,
                   pool, responses,
                   sync_vars, session_vars, client_vars, event_vars>>

\* execute_code, security check 1
execute_code_check ==
    /\ job.pc = "start"
    /\ job.code.language = "python"
    /\ LET v == check_forbidden_imports_ast(job.code)
       IN  IF ~v.is_safe
           THEN JobReturn(ExecutionResult(FALSE, 0, job.test_cases, v.error))
           ELSE job' = [job EXCEPT !.pc = "length"]
    /\ UNCHANGED <<queue, player, room, player_room, next_room, submits, proc,
                   pool, responses,
                   sync_vars, session_vars, client_vars, event_vars>>

\* security gate 2: the code length limit
execute_code_length ==
    /\ job.pc = "length"
    /\ IF job.code.length > max_code_length
       THEN JobReturn(ExecutionResult(FALSE, 0, job.test_cases,
                                      "Code too long"))
       ELSE job' = [job EXCEPT !.pc = "spawn"]
    /\ UNCHANGED <<queue, player, room, player_room, next_room, submits, proc,
                   pool, responses,
                   sync_vars, session_vars, client_vars, event_vars>>

\* the sandbox subprocess of the python code is spawned
execute_code_spawn ==
    /\ job.pc = "spawn"
    /\ job' = [job EXCEPT !.pc = "spawned", !.spawned = @ + 1]
    /\ UNCHANGED <<queue, player, room, player_room, next_room, submits, proc,
                   pool, responses,
                   sync_vars, session_vars, client_vars, event_vars>>

\* execute_java_code: the check of forbidden imports
execute_java_code_check ==
    /\ job.pc = "start"
    /\ job.code.language = "java"
    /\ LET v == check_forbidden_imports_java(job.code)
       IN  IF ~v.is_safe
           THEN JobReturn(ExecutionResult(FALSE, 0, job.test_cases, v.error))
           ELSE job' = [job EXCEPT !.pc = "compile"]
    /\ UNCHANGED <<queue, player, room, player_room, next_room, submits, proc,
                   pool, responses,
                   sync_vars, session_vars, client_vars, event_vars>>

\* javac is run: it exceeds its 10 s, or fails, or succeeds
execute_java_code_compile(timed_out) ==
    /\ job.pc = "compile"
    /\ IF timed_out
       THEN job' = [job EXCEPT !.pc = "done", !.spawned = @ + 1,
                       !.result = ExecutionResult(FALSE, 0, job.test_cases,
                                                  "Timeout")]
       ELSE IF ~job.code.parses
       THEN job' = [job EXCEPT !.pc = "done", !.spawned = @ + 1,
                       !.result = ExecutionResult(FALSE, 0, job.test_cases,
                                                  "Compilation error")]
       ELSE job' = [job EXCEPT !.pc = "run", !.spawned = @ + 1]
    /\ UNCHANGED <<queue, player, room, player_room, next_room, submits, proc,
                   pool, responses,
                   sync_vars, session_vars, client_vars, event_vars>>

\* java TestRunner is started
execute_java_code_run ==
    /\ job.pc = "run"
    /\ job' = [job EXCEPT !.pc = "running", !.spawned = @ + 1]
    /\ UNCHANGED <<queue, player, room, player_room, next_room, submits, proc,
                   pool, responses,
                   sync_vars, session_vars, client_vars, event_vars>>

\* a timeout reports what standard output held when the process was killed
execute_java_code_timeout_partial ==
    /\ job.pc = "running"
    /\ \E passed \in 0..job.test_cases :
          JobReturn(ExecutionResult(FALSE, passed, job.test_cases, "Timeout"))
    /\ UNCHANGED <<queue, player, room, player_room, next_room, submits, proc,
                   pool, responses,
                   sync_vars, session_vars, client_vars, event_vars>>

\* except subprocess.TimeoutExpired
execute_java_code_timeout ==
    /\ job.pc = "running"
    /\ JobReturn(ExecutionResult(FALSE, 0, job.test_cases, "Timeout"))
    /\ UNCHANGED <<queue, player, room, player_room, next_room, submits, proc,
                   pool, responses,
                   sync_vars, session_vars, client_vars, event_vars>>

\* the process exits in time: result = json.loads(output), and the counts
\* of the result are result["passed"] and result["total"]; a text that
\* json.loads refuses lands in except Exception
execute_java_code_output(output) ==
    /\ job.pc = "running"
    /\ IF output.kind = "json"
       THEN JobReturn(ExecutionResult(TRUE, output.passed, output.total, ""))
       ELSE JobReturn(ExecutionResult(FALSE, 0, job.test_cases,
                                      "Execution error"))
    /\ UNCHANGED <<queue, player, room, player_room, next_room, submits, proc,
                   pool, responses,
                   sync_vars, session_vars, client_vars, event_vars>>

\* submit_code stores the counts of the result for the submitter
job_update_test_results ==
    /\ job.pc = "done"
    /\ job' = [job EXCEPT !.pc = "stored"]
    /\ room' = [room EXCEPT ![1] =
                   UpdatedBattle(room[1], 1, job.result.passed_tests,
                                 job.result.total_tests)]
    /\ UNCHANGED <<queue, player, player_room, next_room, submits, proc,
                   pool, responses,
                   sync_vars, session_vars, client_vars, event_vars>>

\* a battle is under way and one submission of player 1 is to be executed
InitExec ==
    /\ queue = <<>>
    /\ player = [u \in Users |-> IF u \in {1, 2} THEN Player(u, elo_rating(u))
                                                  ELSE NoPlayer]
    /\ room = [r \in RoomIds |->
                 IF r = 1
                 THEN BattleData(1, Player(1, elo_rating(1)),
                                 Player(2, elo_rating(2)), "two_sum")
                 ELSE NoRoom]
    /\ player_room = [u \in Users |-> IF u \in {1, 2} THEN 1 ELSE None]
    /\ next_room = 2
    /\ submits = 1
    /\ proc = [p \in Procs |-> Idle]
    /\ pool = NoPool
    /\ responses = 0
    /\ InitSyncVars
    /\ InitSessionVars
    /\ InitClientVars
    /\ InitEventVars
    /\ \E code \in SubmittedCodes, n \in 1..NumTests :
          job = [NoJob EXCEPT !.pc = "start", !.code = code,
                              !.test_cases = n]

NextExec ==
    \/ execute_code_check
    \/ execute_code_length
    \/ execute_code_spawn
    \/ execute_java_code_check
    \/ \E timed_out \in BOOLEAN : execute_java_code_compile(timed_out)
    \/ execute_java_code_run
    \/ execute_java_code_timeout
    \/ \E output \in Stdout : execute_java_code_output(output)
    \/ job_update_test_results

SpecExec == InitExec /\ [][NextExec]_vars

(* ----------------------------- thread pool ---------------------------- *)

\* every call starts a worker thread of its own
run_in_executor_uncapped ==
    /\ pool.submitted < MaxJobs
    /\ pool' = [pool EXCEPT !.submitted = @ + 1,
                            !.work_queue = Append(@, pool.submitted + 1),
                            !.threads = @ + 1]
    /\ UNCHANGED <<queue, player, room, player_room, next_room, submits, proc,
                   job, responses,
                   sync_vars, session_vars, client_vars, event_vars>>

\* loop.run_in_executor(executor, execute_code, ...): the work item joins
\* the queue of the pool; a worker thread is started for it when none is
\* idle and fewer than max_workers exist
run_in_executor ==
    /\ pool.submitted < MaxJobs
    /\ pool' = [pool EXCEPT !.submitted = @ + 1,
                            !.work_queue = Append(@, pool.submitted + 1),
                            !.threads =
                                IF /\ Cardinality(pool.running) = @
                                   /\ @ < max_workers
                                THEN @ + 1 ELSE @]
    /\ UNCHANGED <<queue, player, room, player_room, next_room, submits, proc,
                   job, responses,
                   sync_vars, session_vars, client_vars, event_vars>>

\* an idle worker thread takes the oldest work item and runs execute_code
worker_start ==
    /\ Cardinality(pool.running) < pool.threads
    /\ pool.work_queue # <<>>
    /\ pool' = [pool EXCEPT !.work_queue = Tail(@),
                            !.running = @ \cup {Head(pool.work_queue)}]
    /\ UNCHANGED <<queue, player, room, player_room, next_room, submits, proc,
                   job, responses,
                   sync_vars, session_vars, client_vars, event_vars>>

\* execute_code returns in its worker thread, in time or on its timeout
worker_finish(j, timed_out) ==
    /\ j \in pool.running
    /\ pool' = [pool EXCEPT !.running = @ \ {j},
                            !.finished = @ \cup {<<j, timed_out>>}]
    /\ UNCHANGED <<queue, player, room, player_room, next_room, submits, proc,
                   job, responses,
                   sync_vars, session_vars, client_vars, event_vars>>

NextPool ==
    \/ run_in_executor
    \/ worker_start
    \/ \E j \in 1..MaxJobs, timed_out \in BOOLEAN : worker_finish(j, timed_out)

SpecPool == Init /\ [][NextPool]_vars

(* ----------------------------- event loop ----------------------------- *)

\* the event loop of the server runs handlers unless one of them is inside
\* a blocking call
LoopFree == \A p \in Procs : proc[p].pc # "exec_sync"

\* README submit_code up to execute_code(code, test_cases, func_name,
\* timeout=5), which it calls in the handler itself
readme_submit_code(p, u, rid) ==
    /\ LoopFree
    /\ proc[p].pc = "idle"
    /\ submits < MaxSubmits
    /\ submits' = submits + 1
    /\ IF get_battle_room(rid) = NoRoom
          THEN Return(p) /\ responses' = responses + 1
          ELSE /\ proc' = [proc EXCEPT ![p] =
                             [Idle EXCEPT !.pc = "exec_sync", !.uid = u,
                                          !.rid = rid, !.seq = submits + 1]]
               /\ UNCHANGED responses
    /\ UNCHANGED <<queue, player, room, player_room, next_room, job, pool,
                   sync_vars, session_vars, client_vars, event_vars>>

\* README submit_code from the return of execute_code: update_test_results,
\* the code_submission event and, when every test passed, battle_complete,
\* with no other handler in between
readme_execute_code(p, passed) ==
    /\ proc[p].pc = "exec_sync"
    /\ room' = IF get_battle_room(proc[p].rid) = NoRoom THEN room
               ELSE [room EXCEPT ![proc[p].rid] =
                        UpdatedBattle(room[proc[p].rid], proc[p].uid,
                                      passed, NumTests)]
    /\ responses' = responses + 1
    /\ battle_complete' = EmitBattleComplete(proc[p].rid, proc[p].uid,
                                              passed, NumTests)
    /\ Return(p)
    /\ UNCHANGED <<queue, player, player_room, next_room, submits, job, pool,
                   sync_vars, session_vars, client_vars, challenge_requested,
                   socketRef, wire, effectDeps>>

\* the handlers of the server, run by its event loop
loop_submit_code(p, u, rid, code) == LoopFree /\ submit_code(p, u, rid, code)
loop_execute_code(p, passed) == LoopFree /\ execute_code(p, passed)
loop_update_get(p) == LoopFree /\ update_get(p)
loop_update_set(p) == LoopFree /\ update_set(p)
loop_submit_emit(p) == LoopFree /\ submit_emit(p)
loop_sync_code(p, u, rid, code) == LoopFree /\ sync_code(p, u, rid, code)

\* the steps of the handler of p that no event from outside is needed for
LoopResume(p) ==
    \/ \E n \in 0..NumTests : loop_execute_code(p, n)
    \/ loop_update_get(p)
    \/ loop_update_set(p)
    \/ loop_submit_emit(p)
    \/ \E n \in 0..NumTests : readme_execute_code(p, n)

NextLoop ==
    \/ \E p \in Procs, u \in {1, 2} : loop_submit_code(p, u, 1, "v1")
    \/ \E p \in Procs, u \in {1, 2}, r \in RoomIds : readme_submit_code(p, u, r)
    \/ \E p \in Procs, u \in {1, 2} : loop_sync_code(p, u, 1, "v2")
    \/ \E p \in Procs : LoopResume(p)

SpecLoop == InitBattle /\ [][NextLoop]_vars

\* execute_code returns within its timeout, and the loop runs every handler
\* that can go on
SpecLoopFair == SpecLoop /\ \A p \in Procs : WF_vars(LoopResume(p))

(* ------------------- attempt_matchmaking, one caller ------------------ *)

\* the ratings identities join with: the default 1000, and ratings 100,
\* 200 (the tolerance), 300 and 500 away from one another
Ratings == {900, 1000, 1100, 1300, 1500}

\* the orders in which some of the identities can be queued
QueueOrders ==
    {s \in UNION {[1..n -> Users] : n \in 0..NumUsers} :
        \A i, j \in 1..Len(s) : i # j => s[i] # s[j]}

\* the state add_to_queue calls leave: the identities of the queue in the
\* order they joined, each with the player data it joined with
InitMatch ==
    /\ queue \in QueueOrders
    /\ \E rating \in [Users -> Ratings] :
          player = [u \in Users |->
                      IF u \in ZMembers(queue) THEN Player(u, rating[u])
                                               ELSE NoPlayer]
    /\ room = [r \in RoomIds |-> NoRoom]
    /\ player_room = [u \in Users |-> None]
    /\ next_room = 1
    /\ submits = 0
    /\ proc = [p \in Procs |-> Idle]
    /\ job = NoJob
    /\ pool = NoPool
    /\ responses = 0
    /\ InitSyncVars
    /\ InitSessionVars
    /\ InitClientVars
    /\ InitEventVars

\* attempt_matchmaking called again and again by one caller
NextMatch ==
    \/ attempt_size(1)
    \/ attempt_head(1)
    \/ find_get_player(1)
    \/ find_range(1)
    \/ find_candidate(1)
    \/ find_return(1)
    \/ attempt_get1(1)
    \/ attempt_get2(1)
    \/ \E challenge_id \in Challenges : attempt_execute(1, challenge_id)

SpecMatch == InitMatch /\ [][NextMatch]_vars

(* ------------------ sync_code with deduplication ---------------------- *)

\* the identities whose sockets are in the Socket.IO room of a battle
room_members(rid) ==
    IF get_battle_room(rid) = NoRoom THEN {}
    ELSE {room[rid].player1.user_id, room[rid].player2.user_id}

\* sio.emit('opponent_code_update', ...) to every socket of the room, the
\* sender's included
sync_code_timestamp_echo(u, rid, code, timestamp) ==
    /\ Len(syncs) < MaxSyncs
    /\ syncs' = Append(syncs, SyncData(u, rid, code, timestamp))
    /\ LET battle_room == get_battle_room(rid)
           last_ts == last_sync_timestamps[rid][u]
       IN  IF battle_room = NoRoom
             THEN UNCHANGED <<room, last_sync_timestamps, opponentCode>>
           ELSE IF timestamp > 0 /\ (timestamp - last_ts) < 200
             THEN UNCHANGED <<room, last_sync_timestamps, opponentCode>>
           ELSE /\ last_sync_timestamps' =
                       [last_sync_timestamps EXCEPT ![rid][u] = timestamp]
                /\ room' = update_player_code(rid, u, code)
                /\ opponentCode' =
                       [v \in Users |-> IF v \in room_members(rid)
                                          THEN code ELSE opponentCode[v]]
    /\ UNCHANGED <<queue, player, player_room, next_room, submits, proc, job,
                   pool, responses, session_vars, client_vars, event_vars>>

\* sync_code(sid, data) with data = {user_id, room_id, code, timestamp}, sent
\* on the socket of user_id: an unknown room returns; a timestamp less than
\* 200 ms after the last one kept for this room and user returns; otherwise
\* the timestamp is kept, the code is stored and opponent_code_update is
\* emitted to the room with skip_sid=sid
sync_code_timestamp(u, rid, code, timestamp) ==
    /\ Len(syncs) < MaxSyncs
    /\ syncs' = Append(syncs, SyncData(u, rid, code, timestamp))
    /\ LET battle_room == get_battle_room(rid)
           last_ts == last_sync_timestamps[rid][u]
       IN  IF battle_room = NoRoom
             THEN UNCHANGED <<room, last_sync_timestamps, opponentCode>>
           ELSE IF timestamp > 0 /\ (timestamp - last_ts) < 200
             THEN UNCHANGED <<room, last_sync_timestamps, opponentCode>>
           ELSE /\ last_sync_timestamps' =
                       [last_sync_timestamps EXCEPT ![rid][u] = timestamp]
                /\ room' = update_player_code(rid, u, code)
                /\ opponentCode' =
                       [v \in Users |-> IF v \in room_members(rid) \ {u}
                                          THEN code ELSE opponentCode[v]]
    /\ UNCHANGED <<queue, player, player_room, next_room, submits, proc, job,
                   pool, responses, session_vars, client_vars, event_vars>>

\* timestamp: Date.now() of the sender's client, which does not go back, or
\* none (0)
ClockValues(u) ==
    {t \in Timestamps :
        t = 0 \/ \A i \in 1..Len(syncs) :
                    syncs[i].user_id = u => syncs[i].timestamp <= t}

\* the participants of room 1 send sync_code events, for their room or for
\* a room id the store does not hold
NextSync ==
    \E u \in {1, 2}, rid \in RoomIds, code \in Codes :
        \E timestamp \in ClockValues(u) :
            sync_code_timestamp(u, rid, code, timestamp)

SpecSync == InitBattle /\ [][NextSync]_vars

(* ------------------ register_user, disconnect, connect ---------------- *)

\* no caller is inside a call of the matchmaking system
AllIdle == \A p \in Procs : proc[p].pc = "idle"

\* register_user(sid, data): connected_users[user_id] = {...};
\* socket_to_user[sid] = user_id
register_user(sid, u) ==
    /\ AllIdle
    /\ socket_to_user[sid] = None
    /\ connected_users' = [connected_users EXCEPT ![u] = sid]
    /\ socket_to_user' = [socket_to_user EXCEPT ![sid] = u]
    /\ UNCHANGED <<queue, player, room, player_room, next_room, submits, proc,
                   job, pool, responses, sync_vars, battle_sessions, recovered,
                   client_vars, event_vars>>

\* a disconnect that forgets the socket and leaves the queue alone
disconnect_keeps_queue(sid) ==
    /\ AllIdle
    /\ socket_to_user[sid] # None
    /\ connected_users' = [connected_users EXCEPT ![socket_to_user[sid]] = None]
    /\ socket_to_user' = [socket_to_user EXCEPT ![sid] = None]
    /\ UNCHANGED <<queue, player, room, player_room, next_room, submits, proc,
                   job, pool, responses, sync_vars, battle_sessions, recovered,
                   client_vars, event_vars>>

\* disconnect(sid): for a sid with a registered identity,
\* remove_from_queue(user_id) (zrem, then delete of the player key), then
\* the identity leaves connected_users and the sid leaves socket_to_user
disconnect(sid) ==
    /\ AllIdle
    /\ socket_to_user[sid] # None
    /\ LET user_id == socket_to_user[sid]
       IN  /\ queue' = ZRem(queue, user_id)
           /\ player' = [player EXCEPT ![user_id] = NoPlayer]
           /\ connected_users' = [connected_users EXCEPT ![user_id] = None]
    /\ socket_to_user' = [socket_to_user EXCEPT ![sid] = None]
    /\ UNCHANGED <<room, player_room, next_room, submits, proc,
                   job, pool, responses, sync_vars, battle_sessions, recovered,
                   client_vars, event_vars>>

\* the row stored for a battle when its room is created
BattleSessionOf(bd) ==
    BattleSession(bd.room_id, bd.player1.user_id, bd.player2.user_id, bd.status)

\* the rows connect's query matches: user_id is one of the two players and
\* the status is in_progress
ActiveBattles(user_id) ==
    {r \in RoomIds :
        /\ battle_sessions[r] # NoSession
        /\ user_id \in {battle_sessions[r].player1_id, battle_sessions[r].player2_id}
        /\ battle_sessions[r].status = "in_progress"}

\* connect(sid, environ) with user_id in the query string: the first row the
\* query returns, if any, is sent to the sid as session_recovered
connect(sid, user_id) ==
    /\ AllIdle
    /\ socket_to_user[sid] = None
    /\ IF ActiveBattles(user_id) = {}
         THEN UNCHANGED recovered
         ELSE \E r \in ActiveBattles(user_id) :
                 recovered' = [recovered EXCEPT
                                  ![sid] = SessionRecovered(battle_sessions[r])]
    /\ UNCHANGED <<queue, player, room, player_room, next_room, submits, proc,
                   job, pool, responses, sync_vars, socket_to_user,
                   connected_users, battle_sessions, client_vars, event_vars>>

\* identities 1 and 2 are in the battle of room 1, each registered on the
\* socket with its own number; socket 3 is free
InitSession ==
    /\ queue = <<>>
    /\ player = [u \in Users |-> IF u \in {1, 2} THEN Player(u, elo_rating(u))
                                                  ELSE NoPlayer]
    /\ room = [r \in RoomIds |->
                 IF r = 1 THEN BattleData(1, Player(1, elo_rating(1)),
                                          Player(2, elo_rating(2)), "two_sum")
                          ELSE NoRoom]
    /\ player_room = [u \in Users |-> IF u \in {1, 2} THEN 1 ELSE None]
    /\ next_room = 2
    /\ submits = 0
    /\ proc = [p \in Procs |-> Idle]
    /\ job = NoJob
    /\ pool = NoPool
    /\ responses = 0
    /\ InitSyncVars
    /\ socket_to_user = [sid \in Sids |-> IF sid \in {1, 2} THEN sid ELSE None]
    /\ connected_users = [u \in Users |-> IF u \in {1, 2} THEN u ELSE None]
    /\ battle_sessions = [r \in RoomIds |->
                            IF r = 1 THEN BattleSessionOf(room[1]) ELSE NoSession]
    /\ recovered = [sid \in Sids |-> NoRecovery]
    /\ InitClientVars
    /\ InitEventVars

\* the two participants sync code, lose their connection, connect again
\* and register again
NextSession ==
    \/ \E u \in {1, 2}, code \in Codes : sync_code_timestamp(u, 1, code, 0)
    \/ \E sid \in Sids : disconnect(sid)
    \/ \E sid \in Sids, u \in {1, 2} : connect(sid, u)
    \/ \E sid \in Sids, u \in {1, 2} : register_user(sid, u)

SpecSession == InitSession /\ [][NextSession]_vars

(* --------------- leaving the queue, one caller at a time -------------- *)

\* every identity has joined the queue, in any order, each registered on
\* the socket with its own number
InitLeave ==
    /\ queue \in {s \in QueueOrders : Len(s) = NumUsers}
    /\ player = [u \in Users |->
                   IF u \in ZMembers(queue) THEN Player(u, elo_rating(u))
                                            ELSE NoPlayer]
    /\ room = [r \in RoomIds |-> NoRoom]
    /\ player_room = [u \in Users |-> None]
    /\ next_room = 1
    /\ submits = 0
    /\ proc = [p \in Procs |-> Idle]
    /\ job = NoJob
    /\ pool = NoPool
    /\ responses = 0
    /\ InitSyncVars
    /\ socket_to_user = [sid \in Sids |->
                           IF sid \in ZMembers(queue) THEN sid ELSE None]
    /\ connected_users = [u \in Users |->
                            IF u \in ZMembers(queue) THEN u ELSE None]
    /\ battle_sessions = [r \in RoomIds |-> NoSession]
    /\ recovered = [sid \in Sids |-> NoRecovery]
    /\ InitClientVars
    /\ InitEventVars

\* one server handles its events one after the other: join_queue,
\* leave_queue, disconnect, register_user and attempt_matchmaking
NextLeave ==
    \/ NextMatch
    \/ \E u \in Users : add_to_queue(1, u)
    \/ \E u \in Users : remove_zrem(1, u)
    \/ remove_delete(1)
    \/ \E sid \in Sids : disconnect(sid)
    \/ \E u \in Users : register_user(u, u)

SpecLeave == InitLeave /\ [][NextLeave]_vars

(* ----------------------- the client: App.jsx -------------------------- *)

\* the branch of the render of App: login unless isLoggedIn, then the battle
\* screen while inBattle (the result overlay is inside it and is drawn when
\* battleResult is set), then the queue screen while inQueue, else the menu
ScreenOf(a) ==
    IF ~a.isLoggedIn THEN "login"
    ELSE IF a.inBattle
           THEN IF a.battleResult # NoBattleResult THEN "result" ELSE "battle"
    ELSE IF a.inQueue THEN "queue"
    ELSE "menu"

Screen == ScreenOf(app)

\* handleRegister with a username typed in: userId is a fresh id, isLoggedIn
\* is set and register_user is emitted
handleRegister(newUserId) ==
    /\ Screen = "login"
    /\ Len(sent) < MaxSent
    /\ app' = [app EXCEPT !.userId = newUserId, !.isLoggedIn = TRUE]
    /\ sent' = Append(sent, Emit("register_user", newUserId, None, ""))
    /\ UNCHANGED timeoutId
    /\ UNCHANGED <<queue, player, room, player_room, next_room, submits, proc,
                   job, pool, responses, sync_vars, session_vars, event_vars>>

\* on('user_registered'): the server's answer to register_user
on_user_registered ==
    /\ sent # <<>>
    /\ Head(sent).event = "register_user"
    /\ app' = [app EXCEPT !.isRegistered = TRUE]
    /\ sent' = Tail(sent)
    /\ UNCHANGED timeoutId
    /\ UNCHANGED <<queue, player, room, player_room, next_room, submits, proc,
                   job, pool, responses, sync_vars, session_vars, event_vars>>

\* handleJoinQueue: nothing without a userId or before user_registered,
\* otherwise join_queue is emitted
handleJoinQueue ==
    /\ Screen = "menu"
    /\ Len(sent) < MaxSent
    /\ IF app.userId = None \/ ~app.isRegistered
         THEN UNCHANGED sent
         ELSE sent' = Append(sent, Emit("join_queue", app.userId, None, ""))
    /\ UNCHANGED <<app, timeoutId>>
    /\ UNCHANGED <<queue, player, room, player_room, next_room, submits, proc,
                   job, pool, responses, sync_vars, session_vars, event_vars>>

\* on('queue_joined'): the server's answer to join_queue
on_queue_joined ==
    /\ sent # <<>>
    /\ Head(sent).event = "join_queue"
    /\ app' = [app EXCEPT !.inQueue = TRUE]
    /\ sent' = Tail(sent)
    /\ UNCHANGED timeoutId
    /\ UNCHANGED <<queue, player, room, player_room, next_room, submits, proc,
                   job, pool, responses, sync_vars, session_vars, event_vars>>

\* handleLeaveQueue: leave_queue is emitted
handleLeaveQueue ==
    /\ Screen = "queue"
    /\ Len(sent) < MaxSent
    /\ sent' = Append(sent, Emit("leave_queue", app.userId, None, ""))
    /\ UNCHANGED <<app, timeoutId>>
    /\ UNCHANGED <<queue, player, room, player_room, next_room, submits, proc,
                   job, pool, responses, sync_vars, session_vars, event_vars>>

\* on('queue_left'): the server's answer to leave_queue
on_queue_left ==
    /\ sent # <<>>
    /\ Head(sent).event = "leave_queue"
    /\ app' = [app EXCEPT !.inQueue = FALSE]
    /\ sent' = Tail(sent)
    /\ UNCHANGED timeoutId
    /\ UNCHANGED <<queue, player, room, player_room, next_room, submits, proc,
                   job, pool, responses, sync_vars, session_vars, event_vars>>

\* on('match_found'): the server has matched the queued client
on_match_found(room_id) ==
    /\ app.inQueue
    /\ app' = [app EXCEPT !.roomId = room_id, !.inQueue = FALSE,
                          !.inBattle = TRUE, !.userCode = "",
                          !.userTestsPassed = 0, !.opponentTestsPassed = 0,
                          !.battleResult = NoBattleResult]
    /\ UNCHANGED <<timeoutId, sent>>
    /\ UNCHANGED <<queue, player, room, player_room, next_room, submits, proc,
                   job, pool, responses, sync_vars, session_vars, event_vars>>

\* handleSubmitCode: nothing without a room or code, otherwise submit_code
\* is emitted
handleSubmitCode ==
    /\ Screen \in {"battle", "result"}
    /\ Len(sent) < MaxSent
    /\ IF app.roomId = None \/ app.userCode = ""
         THEN UNCHANGED sent
         ELSE sent' = Append(sent, Emit("submit_code", app.userId, app.roomId,
                                        app.userCode))
    /\ UNCHANGED <<app, timeoutId>>
    /\ UNCHANGED <<queue, player, room, player_room, next_room, submits, proc,
                   job, pool, responses, sync_vars, session_vars, event_vars>>

\* the server takes a submit_code or sync_code event off the wire
server_receives ==
    /\ sent # <<>>
    /\ Head(sent).event \in {"submit_code", "sync_code"}
    /\ sent' = Tail(sent)
    /\ UNCHANGED <<app, timeoutId>>
    /\ UNCHANGED <<queue, player, room, player_room, next_room, submits, proc,
                   job, pool, responses, sync_vars, session_vars, event_vars>>

\* handleCodeChange(value): setUserCode(value); debouncedSyncCode(value)
\* clears the timer and sets it again with the new value
handleCodeChange(value) ==
    /\ Screen \in {"battle", "result"}
    /\ app' = [app EXCEPT !.userCode = value]
    /\ timeoutId' = [set |-> TRUE, args |-> value]
    /\ UNCHANGED sent
    /\ UNCHANGED <<queue, player, room, player_room, next_room, submits, proc,
                   job, pool, responses, sync_vars, session_vars, event_vars>>

\* the timer of debounce runs out after 500 ms: the function handed to
\* debounce runs. useRef(debounce(...)).current is the function made in the
\* first render of App, so the roomId and userId it reads are those of that
\* render
debounce_timeout ==
    /\ timeoutId.set
    /\ Len(sent) < MaxSent
    /\ timeoutId' = NoTimeout
    /\ IF AppMount.roomId # None
         THEN sent' = Append(sent, Emit("sync_code", AppMount.userId,
                                        AppMount.roomId, timeoutId.args))
         ELSE UNCHANGED sent
    /\ UNCHANGED app
    /\ UNCHANGED <<queue, player, room, player_room, next_room, submits, proc,
                   job, pool, responses, sync_vars, session_vars, event_vars>>

\* on('code_submission'), for a client whose socket is in a room: the
\* handler is the one attached by the effect that ran after the first render
\* of App (dependency list []), so the userId it compares with is the userId
\* of that render
on_code_submission(user_id, passed_tests) ==
    /\ app.roomId # None
    /\ IF user_id = AppMount.userId
         THEN app' = [app EXCEPT !.userTestsPassed = passed_tests]
         ELSE app' = [app EXCEPT !.opponentTestsPassed = passed_tests]
    /\ UNCHANGED <<timeoutId, sent>>
    /\ UNCHANGED <<queue, player, room, player_room, next_room, submits, proc,
                   job, pool, responses, sync_vars, session_vars, event_vars>>

\* on('battle_complete'): setBattleResult(...); setInBattle(false)
on_battle_complete(winner_id) ==
    /\ app.inBattle
    /\ app' = [app EXCEPT !.battleResult = BattleResult(winner_id),
                          !.inBattle = FALSE]
    /\ UNCHANGED <<timeoutId, sent>>
    /\ UNCHANGED <<queue, player, room, player_room, next_room, submits, proc,
                   job, pool, responses, sync_vars, session_vars, event_vars>>

\* handleLogout, the button of the menu and of the result overlay
handleLogout ==
    /\ Screen \in {"menu", "result"}
    /\ Len(sent) < MaxSent
    /\ app' = [app EXCEPT !.isLoggedIn = FALSE, !.userId = None,
                          !.isRegistered = FALSE]
    /\ IF app.inQueue
         THEN sent' = Append(sent, Emit("leave_queue", app.userId, None, ""))
         ELSE UNCHANGED sent
    /\ UNCHANGED timeoutId
    /\ UNCHANGED <<queue, player, room, player_room, next_room, submits, proc,
                   job, pool, responses, sync_vars, session_vars, event_vars>>

NextClient ==
    \/ \E newUserId \in Users : handleRegister(newUserId)
    \/ on_user_registered
    \/ handleJoinQueue
    \/ on_queue_joined
    \/ handleLeaveQueue
    \/ on_queue_left
    \/ \E room_id \in RoomIds : on_match_found(room_id)
    \/ handleSubmitCode
    \/ server_receives
    \/ \E value \in Codes \cup {""} : handleCodeChange(value)
    \/ debounce_timeout
    \/ \E winner_id \in Users : on_battle_complete(winner_id)
    \/ \E user_id \in Users, passed_tests \in 0..NumTests :
          on_code_submission(user_id, passed_tests)
    \/ handleLogout

SpecClient == Init /\ [][NextClient]_vars

(* ------------------------------ join_queue ----------------------------- *)

\* join_queue {user_id, challenge_id} as the server handles it: the identity
\* is added to the queue (add_to_queue keeps no challenge), and
\* attempt_matchmaking is then called with the challenge_id of this event
join_queue(p, u, challenge_id) ==
    /\ proc[p].pc = "idle"
    /\ player' = [player EXCEPT ![u] = Player(u, elo_rating(u))]
    /\ queue' = ZAdd(queue, u)
    /\ challenge_requested' = [challenge_requested EXCEPT ![u] = challenge_id]
    /\ Return(p)
    /\ UNCHANGED <<room, player_room, next_room, submits, job, pool, responses,
                   sync_vars, session_vars, client_vars, battle_complete,
                   socketRef, wire, effectDeps>>

\* the identity whose join_queue was handled last: the newest member of the
\* queue
LastJoined == queue[Len(queue)]

\* one server handles join_queue events one after the other, each followed
\* by attempt_matchmaking(challenge_id) with the challenge of that event
NextJoin ==
    \/ \E u \in Users, challenge_id \in Challenges : join_queue(1, u, challenge_id)
    \/ attempt_size(1)
    \/ attempt_head(1)
    \/ find_get_player(1)
    \/ find_range(1)
    \/ find_candidate(1)
    \/ find_return(1)
    \/ attempt_get1(1)
    \/ attempt_get2(1)
    \/ attempt_execute(1, challenge_requested[LastJoined])

SpecJoin == Init /\ [][NextJoin]_vars

\* attempt_matchmaking is called again and again: a call that can take a
\* step does take it
SpecMatchFair == SpecMatch /\ WF_vars(NextMatch)

(* --------------------- expiry of the player keys ---------------------- *)

\* the 1-hour TTL of player:{user_id} (set with ex=3600) runs out: Redis
\* deletes the key; the member of queue:global has no TTL and stays
expire_player(u) ==
    /\ player[u] # NoPlayer
    /\ player' = [player EXCEPT ![u] = NoPlayer]
    /\ UNCHANGED <<queue, room, player_room, next_room, submits, proc, job, pool,
                   responses, sync_vars, session_vars, client_vars, event_vars>>

\* attempt_matchmaking called again and again while player keys expire
NextExpire ==
    \/ NextMatch
    \/ \E u \in Users : expire_player(u)

SpecExpire == InitMatch /\ [][NextExpire]_vars

(* ------------------- one identity, several sockets -------------------- *)

\* identities register on the sockets they connect with, join the queue
\* once registered, and their sockets disconnect
NextHandles ==
    \/ \E sid \in Sids, u \in Users : register_user(sid, u)
    \/ \E sid \in Sids : disconnect(sid)
    \/ \E u \in Users : connected_users[u] # None /\ add_to_queue(1, u)

SpecHandles == Init /\ [][NextHandles]_vars

(* ------------------ the client: the socket of App --------------------- *)

\* useEffect(() => {...; return () => socketRef.current.disconnect()},
\* [userId]): it runs after the first render and after every render in which
\* userId has changed; the cleanup of the run before disconnects the socket
\* that run made, then io(socketURL) makes a socket, which the server knows
\* by a sid of its own
useEffect_userId(sid) ==
    /\ ~effectDeps.ran \/ effectDeps.userId # app.userId
    /\ sid > socketRef.id
    /\ Len(wire) < MaxWire
    /\ wire' = IF effectDeps.ran
                 THEN Append(wire, Packet("disconnect", socketRef.id, None))
                 ELSE wire
    /\ socketRef' = Socket(sid)
    /\ effectDeps' = [ran |-> TRUE, userId |-> app.userId]
    /\ UNCHANGED <<queue, player, room, player_room, next_room, submits, proc,
                   job, pool, responses, sync_vars, session_vars, client_vars,
                   battle_complete, challenge_requested>>

\* handleRegister of this App: setUserId(newUserId); setIsLoggedIn(true);
\* socketRef.current.emit('register_user', {user_id: newUserId, ...})
App_handleRegister(newUserId) ==
    /\ ~app.isLoggedIn
    /\ socketRef # NoSocket
    /\ Len(wire) < MaxWire
    /\ app' = [app EXCEPT !.userId = newUserId, !.isLoggedIn = TRUE]
    /\ wire' = Append(wire, Packet("register_user", socketRef.id, newUserId))
    /\ UNCHANGED <<timeoutId, sent>>
    /\ UNCHANGED <<queue, player, room, player_room, next_room, submits, proc,
                   job, pool, responses, sync_vars, session_vars,
                   battle_complete, challenge_requested, socketRef, effectDeps>>

\* handleLogout of this App: setIsLoggedIn(false); setUserId(null)
App_handleLogout ==
    /\ app.isLoggedIn
    /\ app' = [app EXCEPT !.userId = None, !.isLoggedIn = FALSE,
                          !.isRegistered = FALSE]
    /\ UNCHANGED <<timeoutId, sent>>
    /\ UNCHANGED <<queue, player, room, player_room, next_room, submits, proc,
                   job, pool, responses, sync_vars, session_vars, event_vars>>

\* the server gets register_user from a sid: connected_users[user_id] =
\* {'socket_id': sid, ...}; socket_to_user[sid] = user_id; user_registered
\* is emitted to the sid, and the client's handler runs if the socket with
\* that sid is the one its handlers are on
wire_register_user ==
    /\ wire # <<>>
    /\ Head(wire).event = "register_user"
    /\ wire' = Tail(wire)
    /\ connected_users' = [connected_users EXCEPT ![Head(wire).user_id] = Head(wire).sid]
    /\ socket_to_user' = [socket_to_user EXCEPT ![Head(wire).sid] = Head(wire).user_id]
    /\ app' = IF socketRef = Socket(Head(wire).sid)
                THEN [app EXCEPT !.isRegistered = TRUE]
                ELSE app
    /\ UNCHANGED <<timeoutId, sent>>
    /\ UNCHANGED <<queue, player, room, player_room, next_room, submits, proc,
                   job, pool, responses, sync_vars, battle_sessions, recovered,
                   battle_complete, challenge_requested, socketRef, effectDeps>>

\* the server gets the close of a sid: disconnect(sid)
wire_disconnect ==
    /\ wire # <<>>
    /\ Head(wire).event = "disconnect"
    /\ wire' = Tail(wire)
    /\ LET sid == Head(wire).sid
           user_id == socket_to_user[sid]
       IN  IF user_id = None
             THEN UNCHANGED <<queue, player, connected_users, socket_to_user>>
             ELSE /\ queue' = ZRem(queue, user_id)
                  /\ player' = [player EXCEPT ![user_id] = NoPlayer]
                  /\ connected_users' = [connected_users EXCEPT ![user_id] = None]
                  /\ socket_to_user' = [socket_to_user EXCEPT ![sid] = None]
    /\ UNCHANGED <<room, player_room, next_room, submits, proc,
                   job, pool, responses, sync_vars, battle_sessions, recovered,
                   client_vars, battle_complete, challenge_requested, socketRef,
                   effectDeps>>

\* one App and the server its sockets talk to
NextApp ==
    \/ \E sid \in Sids : useEffect_userId(sid)
    \/ \E newUserId \in Users : App_handleRegister(newUserId)
    \/ App_handleLogout
    \/ wire_register_user
    \/ wire_disconnect

SpecApp == Init /\ [][NextApp]_vars

(* ====================== matchmaking queue: claims ===================== *)

\* rooms that are not completed and name identity u as one of their two players
ActiveRoomsOf(u) ==
    {r \in RoomIds : /\ room[r] # NoRoom
                     /\ room[r].status # "completed"
                     /\ u \in {room[r].player1.user_id, room[r].player2.user_id}}

\* C1: under every interleaving of add_to_queue, remove_from_queue and
\* attempt_matchmaking, each identity is named by at most one room that is
\* not completed.
C1_NoDoubleMatch == \A u \in Users : Cardinality(ActiveRoomsOf(u)) <= 1

\* C2: after any sequence of enqueue, dequeue and try_match operations an
\* identity appears in the matchmaking queue at most once.
C2_QueueUnique ==
    \A i, j \in 1..Len(queue) : i # j => queue[i] # queue[j]

\* C2 witness: a match has been made, a removal is half done, and every
\* identity, the two matched ones included, is queued (again).
C2_Witness ==
    /\ room[1] # NoRoom
    /\ Len(queue) = NumUsers
    /\ \E p \in Procs : proc[p].pc = "rq_del"

\* C3: add_to_queue of an identity that is already queued is a no-op: the
\* queue (its size and the entry's FIFO position) and the stored player
\* data are unchanged.
C3_EnqueueQueuedIsNoOp ==
    [][\A p \in Procs, u \in Users :
          (u \in ZMembers(queue) /\ add_to_queue(p, u))
              => (queue' = queue /\ player' = player)]_vars

\* C4: attempt_matchmaking never returns a pair whose halves are the same
\* identity, never returns an identity that is not in the queue at the
\* moment of the match, and removes both from the queue in that step.
C4_MatchIsQueuedPair ==
    [][\A p \in Procs, ch \in Challenges :
          attempt_execute(p, ch) =>
              /\ proc[p].p1 # proc[p].best
              /\ {proc[p].p1, proc[p].best} \subseteq ZMembers(queue)
              /\ {proc[p].p1, proc[p].best} \cap ZMembers(queue') = {}]_vars

\* C5: when a remove_from_queue of an identity interleaves with an
\* attempt_matchmaking that is searching, no room is created that names the
\* identity after it has been removed from the queue.
C5_NoRoomForRemoved ==
    [][\A p, q \in Procs, ch \in Challenges :
          (/\ attempt_execute(p, ch)
           /\ proc[q].pc = "rq_del"
           /\ proc[q].uid \notin ZMembers(queue))
              => proc[q].uid \notin {proc[p].p1, proc[p].best}]_vars

(* ========================= battle room: claims ======================== *)

\* the participants a room names
PlayersOf(bd) == {bd.player1.user_id, bd.player2.user_id}

\* the passed count a room stores for identity u
TestsOf(bd, u) == IF u = bd.player1.user_id THEN bd.player1_tests
                                            ELSE bd.player2_tests

\* C6: once a room is completed no field of it changes under any later
\* submit or sync event.
C6_CompletedIsFrozen ==
    [][\A r \in RoomIds :
          room[r].status = "completed" => room'[r] = room[r]]_vars

\* C7: a submit for a completed room is rejected: it starts no execution
\* job and leaves the room as it was.
C7_SubmitToCompletedRejected ==
    [][\A p \in Procs, u \in Users, r \in RoomIds, c \in Codes :
          (room[r].status = "completed" /\ submit_code(p, u, r, c))
              => (proc'[p].pc # "exec" /\ room' = room)]_vars

\* C8: when both participants' results pass every test and are applied
\* concurrently, the winner is the one whose result was applied first: the
\* second result does not replace it.
C8_FirstWriterWins ==
    [][\A p, q \in Procs :
          (/\ update_set(p)
           /\ q # p
           /\ proc[q].pc = "emit"
           /\ proc[q].rid = proc[p].rid
           /\ proc[q].uid # proc[p].uid
           /\ {proc[p].uid, proc[q].uid} = PlayersOf(room[proc[p].rid])
           /\ proc[q].passed = proc[q].total
           /\ proc[p].passed = proc[p].total
           /\ room[proc[p].rid].winner_id = proc[q].uid)
              => room'[proc[p].rid].winner_id = proc[q].uid]_vars

\* C9: when the result updates of the two participants interleave, each is
\* applied atomically: applying one participant's result keeps the count
\* the other participant's finished update has stored.
C9_NoLostUpdate ==
    [][\A p, q \in Procs :
          (/\ update_set(p)
           /\ q # p
           /\ proc[q].pc = "emit"
           /\ proc[q].rid = proc[p].rid
           /\ proc[q].uid # proc[p].uid
           /\ {proc[p].uid, proc[q].uid} = PlayersOf(room[proc[p].rid])
           /\ TestsOf(room[proc[p].rid], proc[q].uid) = proc[q].passed)
              => /\ TestsOf(room'[proc[p].rid], proc[q].uid) = proc[q].passed
                 /\ TestsOf(room'[proc[p].rid], proc[p].uid) = proc[p].passed]_vars

\* C10, the transition: a result with passed == total applied to a room
\* that is not completed completes it in that step, with the submitter as
\* winner.
C10_PassCompletes ==
    \A p \in Procs :
        (/\ update_set(p)
         /\ proc[p].passed = proc[p].total
         /\ room[proc[p].rid].status # "completed")
            => /\ room'[proc[p].rid].status = "completed"
               /\ room'[proc[p].rid].winner_id = proc[p].uid

\* C10, the state: the winner is set exactly when the room is completed, and
\* the winner's passed count equals total.
C10_WinnerState ==
    \A r \in RoomIds :
        room[r] # NoRoom =>
            /\ (room[r].winner_id # None) <=> (room[r].status = "completed")
            /\ room[r].status = "completed" =>
                   TestsOf(room[r], room[r].winner_id) = room[r].total_tests

\* C10: a passing result completes the room in the same step and records
\* the submitter as winner; in every state the winner is non-null exactly
\* when the status is completed, and the winner's passed count equals total.
C10_WinnerIffCompleted == [][C10_PassCompletes]_vars /\ []C10_WinnerState

(* ========================= room status: claims ======================== *)

\* position of a status in the order pending, in_progress, completed
StatusRank(s) ==
    IF s = "pending" THEN 0 ELSE IF s = "in_progress" THEN 1 ELSE 2

\* C11, the states: a room that has received no submission is pending.
C11_State ==
    \A r \in RoomIds :
        (room[r] # NoRoom /\ submits = 0) => room[r].status = "pending"

\* C11, the transitions: a room is created pending, stays a room, and its
\* status never moves backwards.
C11_Step ==
    \A r \in RoomIds :
        /\ (room[r] = NoRoom /\ room'[r] # NoRoom)
               => room'[r].status = "pending"
        /\ room[r] # NoRoom
               => /\ room'[r] # NoRoom
                  /\ StatusRank(room'[r].status) >= StatusRank(room[r].status)

\* the whole lifecycle: a room's status follows pending, in_progress,
\* completed only: a newly created room is pending, it is in_progress only
\* after at least one submission has been received, and the status never
\* moves backwards.
C11_StatusLifecycle == []C11_State /\ [][C11_Step]_vars

\* C11: along the lifecycle pending, in_progress, completed the status of a
\* room never moves backwards: a completed room does not become in_progress
\* again.
C11_NeverBackwards ==
    [][\A r \in RoomIds :
          room[r] # NoRoom =>
              StatusRank(room'[r].status) >= StatusRank(room[r].status)]_vars

(* ===================== validator and sandbox: claims ================== *)

\* the failure category that the error message of a result stands for
FailureCategory(error) ==
    IF error = "" THEN "none"
    ELSE IF error \in {"Forbidden import detected",
                       "Dangerous function call blocked",
                       "Dangerous attribute access blocked",
                       "Forbidden import"} THEN "forbidden-construct"
    ELSE IF error \in {"Syntax error in code", "Compilation error"}
    THEN "compile-error"
    ELSE IF error = "Code too long" THEN "code-too-long"
    ELSE IF error = "Timeout" THEN "timeout"
    ELSE "malformed-output"

\* the validator of the language of the code accepts it
Accepted(code) ==
    IF code.language = "python" THEN check_forbidden_imports_ast(code).is_safe
    ELSE check_forbidden_imports_java(code).is_safe

Returned == job.pc \in {"done", "stored"}

\* C12: no sandbox process is spawned for a submission unless the validator
\* accepted its code first; a submission whose code the validator refuses
\* for a denied construct (import os) gets a result with failure category
\* forbidden-construct, zero passed tests, and no process is spawned.
C12_NoSpawnUnlessAccepted ==
    /\ job.spawned > 0 => Accepted(job.code)
    /\ (~Accepted(job.code) /\ job.pc # "start") =>
           /\ Returned
           /\ job.spawned = 0
           /\ ~job.result.success
           /\ job.result.passed_tests = 0
           /\ job.code.parses =>
                  FailureCategory(job.result.error) = "forbidden-construct"

\* C12 witness: import os was submitted and its result has been returned
C12_Witness ==
    /\ job.code.text = "import os"
    /\ job.pc = "done"
    /\ job.result.error = "Forbidden import detected"

\* C13: the validator rejects every program that reaches a denied module or
\* dynamic-execution builtin by a direct import, an aliased import, a
\* dynamic-import-style call or a reflective attribute lookup: no such
\* program gets past the check.
C13_DeniedIsRejected ==
    (job.code.language = "python" /\ job.code.route # "none")
        => job.pc \notin {"length", "spawn", "spawned"}

C15_CountsInBounds ==
    /\ Returned =>
           /\ 0 <= job.result.passed_tests
           /\ job.result.passed_tests <= job.result.total_tests
           /\ job.result.total_tests = job.test_cases
    /\ \A r \in RoomIds :
           room[r] # NoRoom =>
               /\ 0 <= room[r].player1_tests
               /\ room[r].player1_tests <= room[r].total_tests
               /\ 0 <= room[r].player2_tests
               /\ room[r].player2_tests <= room[r].total_tests

\* C16, the step: an execution that hits the timeout, and one whose output
\* json.loads refuses, returns a result to the handler with passed = 0 and
\* the failure category timeout, or malformed-output.
C16_Step ==
    /\ execute_java_code_timeout =>
           /\ job'.pc = "done"
           /\ job'.result.passed_tests = 0
           /\ FailureCategory(job'.result.error) = "timeout"
    /\ \A output \in Stdout :
           (output.kind # "json" /\ execute_java_code_output(output)) =>
               /\ job'.pc = "done"
               /\ job'.result.passed_tests = 0
               /\ FailureCategory(job'.result.error) = "malformed-output"

C17_State ==
    /\ Cardinality(pool.running) <= max_workers
    /\ Len(pool.work_queue) + Cardinality(pool.running)
           + Cardinality(pool.finished) = pool.submitted
    /\ \A f \in pool.finished : f[1] \notin pool.running

\* C17, the steps: the job that starts is the one submitted before every
\* job still waiting, and a job that finishes or times out frees its slot
C17_Step ==
    /\ worker_start =>
           \A j \in pool.running' \ pool.running :
               \A i \in 1..Len(pool.work_queue') : j < pool.work_queue'[i]
    /\ \A j \in 1..MaxJobs, timed_out \in BOOLEAN :
           worker_finish(j, timed_out) =>
               Cardinality(pool.running') = Cardinality(pool.running) - 1

\* C17: the number of executions running at once is at most
\* max_concurrent_executions (4) whatever the submission rate; jobs beyond
\* the cap wait and start in FIFO submission order, and every execution that
\* finishes or times out releases its slot.
C17_PoolIsBounded == []C17_State /\ [][C17_Step]_vars

\* C17 witness: every slot is taken, a job waits, and a slot has already
\* been released by a timed-out job and taken again
C17_Witness ==
    /\ Cardinality(pool.running) = max_workers
    /\ pool.work_queue # <<>>
    /\ \E f \in pool.finished : f[2]

(* =========================== event loop: claims ======================= *)

Executing(p) == proc[p].pc \in {"exec", "exec_sync"}

\* C18: sandbox execution is off the coordinating path: while the
\* submission of one participant is executing, a sync event and a submit
\* event of the other participant are accepted and handled.
C18_OthersNotStalled ==
    \A p, q \in Procs :
        (Executing(p) /\ proc[q].pc = "idle") =>
            \A u \in {1, 2} \ {proc[p].uid} :
                /\ ENABLED loop_sync_code(q, u, 1, "v2")
                /\ submits < MaxSubmits =>
                       ENABLED loop_submit_code(q, u, 1, "v1")

\* submit_code events whose handler has not returned
InFlight == Cardinality({p \in Procs : proc[p].pc # "idle"})

\* C19, the states: every submit_code event whose handler has returned has
\* got one response, and none that is still handled has got one
C19_State == responses + InFlight = submits

\* C19, the steps: an execution starts only in the step that receives a
\* submit_code event, one for the event; none starts again after a timeout
C19_Step ==
    \A p \in Procs :
        (Executing(p)' /\ proc'[p].pc # proc[p].pc) =>
            (proc[p].pc = "idle" /\ submits' = submits + 1)

\* C19, the progress: the handler of every submit_code event returns
C19_Live == \A p \in Procs : (proc[p].pc # "idle") ~> (proc[p].pc = "idle")

C20_ReceiptOrder ==
    [][\A p, q \in Procs :
          (/\ loop_update_set(p)
           /\ q # p
           /\ proc[q].pc = "emit"
           /\ proc[q].rid = proc[p].rid
           /\ proc[q].uid = proc[p].uid
           /\ proc[q].seq > proc[p].seq
           /\ proc[p].bd = room[proc[p].rid]
           /\ TestsOf(room[proc[p].rid], proc[p].uid) = proc[q].passed)
              => TestsOf(room'[proc[p].rid], proc[p].uid) = proc[q].passed]_vars

(* ================= attempt_matchmaking, one caller: claims ============ *)

\* the difference between the ratings stored for two queued identities
EloDiff(u, v) == Abs(player[u].elo_rating - player[v].elo_rating)

\* the positions of the queue, after the head, whose identity is within
\* tolerance of the head
InTolerance ==
    {i \in 2..Len(queue) : EloDiff(queue[1], queue[i]) <= elo_tolerance}

C22_WithinTolerance ==
    \A r \in RoomIds :
        room[r] # NoRoom =>
            Abs(room[r].player1.elo_rating - room[r].player2.elo_rating)
                <= elo_tolerance

\* C22 witness: identities rated 1000 and 1100 are paired, and the third,
\* rated 1500, is left queued with no opponent
C22_Witness ==
    /\ room[1] # NoRoom
    /\ {room[1].player1.elo_rating, room[1].player2.elo_rating} = {1000, 1100}
    /\ Len(queue) >= 1
    /\ \A i \in 1..Len(queue) : player[queue[i]].elo_rating = 1500
    /\ \A r \in RoomIds : r # 1 => room[r] = NoRoom

\* C23, the states: attempt_matchmaking goes on to create a room only when
\* a candidate within tolerance of the head is queued
C23_State ==
    proc[1].pc \in {"am_get1", "am_get2", "am_exec"} => InTolerance # {}

\* C23, the steps: every step of a call that creates no room leaves the
\* queue, the player data and the rooms as they were
C23_Step ==
    (\A challenge_id \in Challenges : ~attempt_execute(1, challenge_id))
        => (/\ queue' = queue
            /\ player' = player
            /\ room' = room
            /\ player_room' = player_room
            /\ next_room' = next_room)

\* C23: when attempt_matchmaking finds no candidate within tolerance for
\* the head, it produces no match and leaves the queue exactly as it was:
\* every entry stays queued in the same order and no room is created.
C23_NoMatchNoChange == []C23_State /\ [][C23_Step]_vars

\* C23 witness: the search for the head of a queue of two or more has ended
\* without a candidate
C23_Witness ==
    /\ proc[1].pc = "fbm_loop"
    /\ proc[1].snap = <<>>
    /\ proc[1].best = None
    /\ Len(queue) >= 2
    /\ InTolerance = {}

(* ============================ sync_code: claims ======================= *)

\* the last sync_code event received
LastSync == syncs[Len(syncs)]

\* the code stored in a room for one of its participants
StoredCode(bd, u) ==
    IF u = bd.player1.user_id THEN bd.player1_code ELSE bd.player2_code

\* the participant of a room that is not u
Opponent(bd, u) ==
    IF u = bd.player1.user_id THEN bd.player2.user_id ELSE bd.player1.user_id

\* C24, one step: the room after the event is the room before it with at
\* most the sender's code replaced by the code of the event, and the code
\* shown to the sender and to identities outside the room is as before
C24_Step ==
    \A u \in {1, 2}, code \in Codes, timestamp \in Timestamps :
        (/\ sync_code_timestamp(u, 1, code, timestamp)
         /\ room[1].status \in {"pending", "in_progress"})
        => /\ \/ room' = room
              \/ /\ room' = [room EXCEPT ![1] =
                               IF u = room[1].player1.user_id
                                 THEN [room[1] EXCEPT !.player1_code = code]
                                 ELSE [room[1] EXCEPT !.player2_code = code]]
                 /\ opponentCode'[Opponent(room[1], u)] = code
           /\ \A v \in Users \ {Opponent(room[1], u)} :
                 opponentCode'[v] = opponentCode[v]

C25_Idempotent ==
    [][\A u \in {1, 2}, code \in Codes, timestamp \in Timestamps :
          (/\ sync_code_timestamp(u, 1, code, timestamp)
           /\ syncs # <<>>
           /\ LastSync.user_id = u
           /\ LastSync.room_id = 1
           /\ LastSync.code = code)
          => /\ room' = room
             /\ opponentCode' = opponentCode]_vars

\* C26: a participant's stored code is last-write-wins: after any sequence
\* of sync events from the participants of an active room, the code stored
\* for the sender of the last event received and the code last delivered to
\* its peer are the code of that event.
C26_LastWriteWins ==
    (/\ syncs # <<>>
     /\ get_battle_room(LastSync.room_id) # NoRoom
     /\ get_battle_room(LastSync.room_id).status \in {"pending", "in_progress"})
    => LET bd == room[LastSync.room_id]
       IN  /\ StoredCode(bd, LastSync.user_id) = LastSync.code
           /\ opponentCode[Opponent(bd, LastSync.user_id)] = LastSync.code

(* ====================== connections: claims =========================== *)

\* the room a participant is in, as battle_sessions knows it
InBattle(u, r) ==
    /\ room[r] # NoRoom
    /\ room[r].status = "in_progress"
    /\ u \in {room[r].player1.user_id, room[r].player2.user_id}

\* C27, the disconnect: it leaves every room and the room of every identity
\* as they were
C27_DisconnectKeepsRoom ==
    [][\A sid \in Sids :
          disconnect(sid) => room' = room /\ player_room' = player_room]_vars

\* C27: a disconnect of a participant who is in a battle does not destroy or
\* alter the room, and when the same identity connects again it is handed
\* that same room with the state the room has: both code texts and the
\* counts.
C27_ResumesRoomState ==
    [][/\ \A sid \in Sids :
             disconnect(sid) => room' = room /\ player_room' = player_room
       /\ \A sid \in Sids, u \in {1, 2}, r \in RoomIds :
             (connect(sid, u) /\ InBattle(u, r))
             => /\ recovered'[sid].room_id = r
                /\ recovered'[sid].player1_code = room[r].player1_code
                /\ recovered'[sid].player2_code = room[r].player2_code
                /\ recovered'[sid].player1_tests = room[r].player1_tests
                /\ recovered'[sid].player2_tests = room[r].player2_tests
                /\ recovered'[sid].total_tests = room[r].total_tests]_vars

\* the members of a sequence
Range(s) == {s[i] : i \in 1..Len(s)}

\* C28, one step: leaving takes the identity, and nothing else, out of the
\* queue; a match is made of queued identities; an identity enters the
\* queue by add_to_queue only
C28_Step ==
    /\ \A u \in Users :
          remove_zrem(1, u)
          => /\ u \notin Range(queue')
             /\ queue' = SelectSeq(queue, LAMBDA e : e # u)
    /\ \A sid \in Sids :
          disconnect(sid)
          => /\ socket_to_user[sid] \notin Range(queue')
             /\ queue' = SelectSeq(queue, LAMBDA e : e # socket_to_user[sid])
    /\ \A challenge_id \in Challenges :
          attempt_execute(1, challenge_id)
          => {room'[next_room].player1.user_id,
              room'[next_room].player2.user_id} \subseteq Range(queue)
    /\ \A u \in Users :
          (u \notin Range(queue) /\ u \in Range(queue')) => add_to_queue(1, u)

\* C28: after leave_queue or the disconnect of a queued identity, the
\* identity is no longer in the queue and no later attempt_matchmaking
\* returns it until it joins again; the other entries and their order are
\* unchanged.
C28_LeftIsGone == [][C28_Step]_vars

\* C28 witness: identity 3 has disconnected and is gone from the queue; the
\* attempt_matchmaking that began afterwards has found the pair 1 and 2,
\* which are queued in the order they joined
C28_Witness ==
    /\ socket_to_user[3] = None
    /\ player[3] = NoPlayer
    /\ queue = <<1, 2>>
    /\ proc[1].pc = "am_exec"
    /\ proc[1].p1 = 1
    /\ proc[1].best = 2

(* ============================ the client: claims ====================== *)

\* C29: the screens follow LOGIN, MAIN MENU, QUEUE, BATTLE, RESULT, LOGIN:
\* from the battle screen a battle_complete event leads to the result screen,
\* which displays the winner, and the result screen is left only through
\* logout, to the login screen.
C29_BattleCompleteShowsResult ==
    [][/\ \A winner_id \in Users :
             (on_battle_complete(winner_id) /\ Screen = "battle")
             => /\ ScreenOf(app') = "result"
                /\ app'.battleResult.winner = winner_id
       /\ (Screen = "result" /\ ScreenOf(app') # "result")
             => (handleLogout /\ ScreenOf(app') = "login")]_vars

\* C30: in a battle, code changes are synced through the 500 ms debounce:
\* a keystroke emits nothing, and when the timer runs out one sync_code
\* event with the current room id, the user's identity and the latest
\* editor content is emitted.
C30_DebouncedSync ==
    [][/\ \A value \in Codes \cup {""} : handleCodeChange(value) => sent' = sent
       /\ (debounce_timeout /\ Screen = "battle")
             => sent' = Append(sent, Emit("sync_code", app.userId, app.roomId,
                                          app.userCode))]_vars

\* C31: on every code_submission event the client updates its own counter
\* of passed tests when the event's user_id is the client's identity and the
\* opponent's counter otherwise; its own result never changes the opponent
\* counter.
C31_OwnResultOwnCounter ==
    [][\A user_id \in Users, passed_tests \in 0..NumTests :
          (on_code_submission(user_id, passed_tests) /\ app.isRegistered)
          => IF user_id = app.userId
               THEN /\ app'.userTestsPassed = passed_tests
                    /\ app'.opponentTestsPassed = app.opponentTestsPassed
               ELSE /\ app'.opponentTestsPassed = passed_tests
                    /\ app'.userTestsPassed = app.userTestsPassed]_vars

(* ==================== rooms and their participants: claims ============ *)

\* the two identities a room names
Participants(bd) == {bd.player1.user_id, bd.player2.user_id}

\* C32: only the two participants a room names can change it: in every
\* reachable state the winner recorded in a room is one of the room's two
\* participants.
C32_WinnerIsParticipant ==
    \A r \in RoomIds :
        (room[r] # NoRoom /\ room[r].winner_id # None)
        => room[r].winner_id \in Participants(room[r])

\* C33: a room's challenge is the challenge both of its participants asked
\* for when they joined: attempt_matchmaking pairs no two identities that
\* asked for different challenges.
C33_RoomHasRequestedChallenge ==
    [][\A challenge_id \in Challenges :
          attempt_execute(1, challenge_id)
          => /\ challenge_requested[proc[1].p1] = challenge_requested[proc[1].best]
             /\ room'[next_room].challenge_id = challenge_requested[proc[1].p1]]_vars

\* two identities of the queue have ratings within tolerance of each other
Matchable ==
    \E i, j \in 1..Len(queue) :
        i # j /\ EloDiff(queue[i], queue[j]) <= elo_tolerance

\* C34: whenever the queue holds two identities whose ratings are within
\* tolerance of each other, repeated attempt_matchmaking calls eventually
\* produce a match: a head with no candidate within tolerance does not block
\* the entries behind it for ever.
C34_MatchableIsMatched == Matchable ~> (\E r \in RoomIds : room[r] # NoRoom)

\* C35: every identity in the queue has a live participant record: an
\* identity whose record has expired is out of the queue as well.
C35_QueuedHasRecord ==
    \A i \in 1..Len(queue) : player[queue[i]] # NoPlayer

(* ============================ sockets: claims ========================= *)

\* C36: when an identity has registered again from a new socket and the
\* disconnect of its old socket arrives afterwards, the identity stays
\* registered and, if queued, stays in the queue: a disconnect removes an
\* identity only when the socket is the one stored for the identity.
C36_StaleDisconnectKeepsIdentity ==
    [][\A sid \in Sids :
          (/\ disconnect(sid)
           /\ connected_users[socket_to_user[sid]] # sid)
          => /\ connected_users'[socket_to_user[sid]]
                    = connected_users[socket_to_user[sid]]
             /\ queue' = queue]_vars

(* ======================== battle_complete: claims ===================== *)

\* C37: for each room at most one battle_complete event is ever emitted,
\* it is emitted for a room that is completed, and the winner it names is
\* the winner recorded in the room.
C37_OneBattleComplete ==
    [][\A r \in RoomIds :
          battle_complete'[r] # battle_complete[r]
          => /\ battle_complete[r].count = 0
             /\ room'[r].status = "completed"
             /\ battle_complete'[r].winner_id = room'[r].winner_id]_vars

(* ======================= queue and rooms: claims ====================== *)

\* C38: no identity is both in the matchmaking queue and a participant of
\* a room that is not completed.
C38_QueuedNotInBattle ==
    \A u \in ZMembers(queue), r \in RoomIds :
        (room[r] # NoRoom /\ room[r].status # "completed")
        => u \notin {room[r].player1.user_id, room[r].player2.user_id}

(* ======================== the App's socket: claims ==================== *)

\* C39: after handleRegister has set the user identity and emitted
\* register_user, the client keeps the socket it emitted on: while the
\* identity is set the socket of the client stays the same connected socket.
C39_SocketKeptWhileRegistered ==
    [][(app.userId # None /\ app'.userId # None) => socketRef' = socketRef]_vars

====
